---- MODULE Spec2Model ----
(***************************************************************************)
(* A model of the difficient crate: Diffable::diff, Replace::is_unchanged  *)
(* / is_replaced, Apply::apply_to_base and Diffable::apply, for the        *)
(* primitive, Vec, HashMap/BTreeMap, unit, Box, Option and tuple impls of  *)
(* src/src/lib.rs and for the struct and enum impls that                   *)
(* difficient-macros derives.                                              *)
(*                                                                         *)
(* A Rust type is a descriptor record (field k names the kind), a value    *)
(* of the type is a TLA+ value shaped after it, and every trait method is  *)
(* an operator that dispatches on the descriptor the way rustc dispatches  *)
(* on the type.                                                            *)
(***************************************************************************)
EXTENDS Integers, Sequences, FiniteSets, TLC

VARIABLES ty, base, other, source, diff, errs, result, pc

vars == <<ty, base, other, source, diff, errs, result, pc>>

(***************************************************************************)
(* Bounds of the input space.                                              *)
(***************************************************************************)
\* leaf values (i32, u32, u64, String, &'static str) are 0..MaxVal
MaxVal == 1
\* keys of an outermost map are 1..MaxKey
MaxKey == 2
\* keys of a map that is itself a map's value are 1..MaxInnerKey
MaxInnerKey == 1
\* a Vec holds at most MaxLen elements
MaxLen == 2

Vals == 0 .. MaxVal

\* the f64 value for which == is not reflexive
NaN == -1

Floats == Vals \cup {NaN}

\* the only value of () and of a unit struct
UnitVal == 0

(***************************************************************************)
(* Type descriptors.                                                       *)
(***************************************************************************)
PrimT == [k |-> "prim"]
FloatT == [k |-> "float"]
UnitT == [k |-> "unit"]
VecT(e) == [k |-> "vec", elem |-> e]
HashMapT(n, v) == [k |-> "map", btree |-> FALSE, keys |-> n, val |-> v]
BTreeMapT(n, v) == [k |-> "map", btree |-> TRUE, keys |-> n, val |-> v]
BoxT(t) == [k |-> "box", of |-> t]
OptionT(t) == [k |-> "option", of |-> t]
TupleT(fs) == [k |-> "tuple", fields |-> fs]
StructT(fs) == [k |-> "struct", fields |-> fs]
UnitStructT == [k |-> "unitstruct"]
EnumT(vs) == [k |-> "enum", variants |-> vs]
Variant(style, fs) == [style |-> style, fields |-> fs]

\* struct Child1 { x: i32, y: String }
Child1 == StructT(<<PrimT, PrimT>>)
\* struct SimpleStruct { x: String, y: i32 }
SimpleStruct == StructT(<<PrimT, PrimT>>)
\* struct StrangeStruct { try: Option<Box<(u32, (&'static str, Box<u64>))>> }
StrangeStruct ==
    StructT(<<OptionT(BoxT(TupleT(<<PrimT, TupleT(<<PrimT, BoxT(PrimT)>>)>>)))>>)
\* struct Unit;
Unit == UnitStructT
\* struct Tuple(Vec<&'static str>, i32);
Tuple == StructT(<<VecT(PrimT), PrimT>>)
\* enum SimpleEnum { First, Second(i32), Third { x: String, y: () } }
SimpleEnum ==
    EnumT(<<Variant("Unit", <<>>), Variant("Tuple", <<PrimT>>),
            Variant("Struct", <<PrimT, UnitT>>)>>)
\* Child2 without its enum field: struct Child2 { a: String, c: () }
Child2 == StructT(<<PrimT, UnitT>>)
\* Parent, its aggregate and its leaf field:
\* struct Nested { c1: Child1, val: String }
Nested == StructT(<<Child1, PrimT>>)
\* Parent, its map and its leaf field:
\* struct Holder { c3: HashMap<i32, i32>, val: String }
Holder == StructT(<<HashMapT(MaxInnerKey, PrimT), PrimT>>)
\* a derived struct with two fields whose patches can fail to apply:
\* struct Mixed { opt: Option<i32>, c3: HashMap<i32, ()> }
Mixed == StructT(<<OptionT(PrimT), HashMapT(MaxInnerKey, UnitT)>>)

TypeNames ==
    {"i32", "f64", "()", "Vec<f64>", "HashMap<i32,i32>", "BTreeMap<i32,Child2>",
     "HashMap<i32,HashMap<i32,()>>", "Option<SimpleStruct>", "Box<i32>",
     "(i32,f64)", "SimpleStruct", "StrangeStruct", "Unit", "Tuple",
     "SimpleEnum", "Nested", "Holder", "Mixed", "HashMap<i32,Option<i32>>"}

TypeOf(name) ==
    CASE name = "i32" -> PrimT
      [] name = "f64" -> FloatT
      [] name = "()" -> UnitT
      [] name = "Vec<f64>" -> VecT(FloatT)
      [] name = "HashMap<i32,i32>" -> HashMapT(MaxKey, PrimT)
      [] name = "BTreeMap<i32,Child2>" -> BTreeMapT(MaxKey, Child2)
      [] name = "HashMap<i32,HashMap<i32,()>>" ->
             HashMapT(MaxKey, HashMapT(MaxInnerKey, UnitT))
      [] name = "Option<SimpleStruct>" -> OptionT(SimpleStruct)
      [] name = "Box<i32>" -> BoxT(PrimT)
      [] name = "(i32,f64)" -> TupleT(<<PrimT, FloatT>>)
      [] name = "SimpleStruct" -> SimpleStruct
      [] name = "StrangeStruct" -> StrangeStruct
      [] name = "Unit" -> Unit
      [] name = "Tuple" -> Tuple
      [] name = "SimpleEnum" -> SimpleEnum
      [] name = "Nested" -> Nested
      [] name = "Holder" -> Holder
      [] name = "Mixed" -> Mixed
      [] name = "HashMap<i32,Option<i32>>" ->
             HashMapT(MaxInnerKey, OptionT(PrimT))

(***************************************************************************)
(* Values of a type.                                                       *)
(***************************************************************************)
None == [some |-> FALSE]
Some(v) == [some |-> TRUE, v |-> v]

RECURSIVE Values(_), Product(_, _)

\* the sequences whose i-th element is a value of the i-th type of ts
Product(ts, n) ==
    IF n = 0 THEN {<<>>}
    ELSE {Append(p, v) : p \in Product(ts, n - 1), v \in Values(ts[n])}

Values(t) ==
    CASE t.k = "prim" -> Vals
      [] t.k = "float" -> Floats
      [] t.k = "unit" -> {UnitVal}
      [] t.k = "unitstruct" -> {UnitVal}
      [] t.k = "vec" ->
             UNION {[1 .. n -> Values(t.elem)] : n \in 0 .. MaxLen}
      [] t.k = "map" ->
             UNION {[ks -> Values(t.val)] : ks \in SUBSET (1 .. t.keys)}
      [] t.k = "box" -> Values(t.of)
      [] t.k = "option" -> {None} \cup {Some(v) : v \in Values(t.of)}
      [] t.k = "tuple" -> Product(t.fields, Len(t.fields))
      [] t.k = "struct" -> Product(t.fields, Len(t.fields))
      [] t.k = "enum" ->
             UNION {{[tag |-> i, fs |-> p] :
                        p \in Product(t.variants[i].fields,
                                      Len(t.variants[i].fields))} :
                    i \in 1 .. Len(t.variants)}

(***************************************************************************)
(* PartialEq (==) as the primitives define it and #[derive(PartialEq)]     *)
(* extends it.                                                             *)
(***************************************************************************)
RECURSIVE PEq(_, _, _)

PEq(t, a, b) ==
    CASE t.k = "prim" -> a = b
      [] t.k = "float" -> a = b /\ a # NaN
      [] t.k = "unit" -> TRUE
      [] t.k = "unitstruct" -> TRUE
      [] t.k = "vec" ->
             /\ Len(a) = Len(b)
             /\ \A i \in 1 .. Len(a) : PEq(t.elem, a[i], b[i])
      [] t.k = "map" ->
             /\ DOMAIN a = DOMAIN b
             /\ \A key \in DOMAIN a : PEq(t.val, a[key], b[key])
      [] t.k = "box" -> PEq(t.of, a, b)
      [] t.k = "option" ->
             /\ a.some = b.some
             /\ a.some => PEq(t.of, a.v, b.v)
      [] t.k = "tuple" ->
             \A i \in 1 .. Len(t.fields) : PEq(t.fields[i], a[i], b[i])
      [] t.k = "struct" ->
             \A i \in 1 .. Len(t.fields) : PEq(t.fields[i], a[i], b[i])
      [] t.k = "enum" ->
             /\ a.tag = b.tag
             /\ \A i \in 1 .. Len(a.fs) :
                    PEq(t.variants[a.tag].fields[i], a.fs[i], b.fs[i])

(***************************************************************************)
(* Diff values.  AtomicDiff and DeepDiff share Unchanged and Replaced;     *)
(* Replaced carries the value the reference points to.                     *)
(***************************************************************************)
Unchanged == [d |-> "Unchanged"]
Patched(p) == [d |-> "Patched", p |-> p]
Replaced(r) == [d |-> "Replaced", r |-> r]
\* Id<T>
Id == [d |-> "Id"]
\* Box<T::Diff>
BoxD(x) == [d |-> "Box", of |-> x]
\* ( A::Diff, B::Diff, ... )
TupleD(ds) == [d |-> "Tuple", fs |-> ds]

\* KvDiff
Removed == [kv |-> "Removed"]
Inserted(v) == [kv |-> "Inserted", v |-> v]
KvDiffOf(x) == [kv |-> "Diff", d |-> x]

\* the patch of an enum: the variant and one diff per field of it
VariantD(tag, ds) == [tag |-> tag, fs |-> ds]

(***************************************************************************)
(* Replace::is_unchanged and Replace::is_replaced.                         *)
(***************************************************************************)
RECURSIVE IsUnchanged(_), IsReplaced(_)

IsUnchanged(x) ==
    CASE x.d = "Id" -> TRUE
      [] x.d = "Unchanged" -> TRUE
      [] x.d = "Patched" -> FALSE
      [] x.d = "Replaced" -> FALSE
      [] x.d = "Box" -> IsUnchanged(x.of)
      [] x.d = "Tuple" -> \A i \in 1 .. Len(x.fs) : IsUnchanged(x.fs[i])

IsReplaced(x) ==
    CASE x.d = "Id" -> FALSE
      [] x.d = "Unchanged" -> FALSE
      [] x.d = "Patched" -> FALSE
      [] x.d = "Replaced" -> TRUE
      [] x.d = "Box" -> IsReplaced(x.of)
      [] x.d = "Tuple" -> \A i \in 1 .. Len(x.fs) : IsReplaced(x.fs[i])

(***************************************************************************)
(* Diffable::diff.                                                         *)
(***************************************************************************)
\* FoldFields without the else-if branch: a changed aggregate is always
\* Patched
FoldFields_NoCollapse(ds, target, patch) ==
    IF \A i \in 1 .. Len(ds) : IsUnchanged(ds[i]) THEN Unchanged
    ELSE Patched(patch)

\* FoldFields that collapses as soon as one field is replaced
FoldFields_AnyReplaced(ds, target, patch) ==
    IF \A i \in 1 .. Len(ds) : IsUnchanged(ds[i]) THEN Unchanged
    ELSE IF \E i \in 1 .. Len(ds) : IsReplaced(ds[i]) THEN Replaced(target)
    ELSE Patched(patch)

\* the if / else if / else that closes the diff of a struct and of an enum
\* variant: ds are the fields' diffs, target is `other`, patch the patch
FoldFields(ds, target, patch) ==
    IF \A i \in 1 .. Len(ds) : IsUnchanged(ds[i]) THEN Unchanged
    ELSE IF \A i \in 1 .. Len(ds) : IsReplaced(ds[i]) THEN Replaced(target)
    ELSE Patched(patch)

\* DiffPrimitive with the two branches of the if exchanged
DiffPrimitive_Swapped(t, self, target) ==
    IF PEq(t, self, target) THEN Replaced(target) ELSE Unchanged

\* impl_diffable_for_primitives!
DiffPrimitive(t, self, target) ==
    IF PEq(t, self, target) THEN Unchanged ELSE Replaced(target)

\* impl Diffable for Vec<T>
DiffVec(t, self, target) ==
    IF Len(self) # Len(target) THEN Replaced(target)
    ELSE IF \E i \in 1 .. Len(self) : ~PEq(t.elem, self[i], target[i])
         THEN Replaced(target)
    ELSE Unchanged

ContainsKey(m, key) == key \in DOMAIN m

\* InsertedKeys with the negation of the test dropped
InsertedKeys_Unguarded(self, target) ==
    {key \in DOMAIN target : ContainsKey(target, key)}

\* the keys the second loop of the map diff records as Inserted
InsertedKeys(self, target) ==
    {key \in DOMAIN target : ~ContainsKey(target, key)}

RECURSIVE Diff(_, _, _)

\* DiffMap with all_replaced left alone by a removed key and by a key of
\* unchanged value
DiffMap_LooseCollapse(t, self, target) ==
    LET removed == {key \in DOMAIN self : ~ContainsKey(target, key)}
        both == {key \in DOMAIN self : ContainsKey(target, key)}
        child == [key \in both |-> Diff(t.val, self[key], target[key])]
        changed == {key \in both : ~IsUnchanged(child[key])}
        inserted == InsertedKeys(self, target)
        diffs == [key \in removed \cup changed \cup inserted |->
                     IF key \in inserted THEN Inserted(target[key])
                     ELSE IF key \in removed THEN Removed
                     ELSE KvDiffOf(child[key])]
        all_unchanged == removed = {} /\ changed = {} /\ inserted = {}
        all_replaced ==
            /\ \A key \in changed : IsReplaced(child[key])
            /\ inserted = {}
    IN  IF all_unchanged THEN Unchanged
        ELSE IF all_replaced THEN Replaced(target)
        ELSE Patched(diffs)

\* kv_map_impl! Diffable::diff
DiffMap(t, self, target) ==
    LET removed == {key \in DOMAIN self : ~ContainsKey(target, key)}
        both == {key \in DOMAIN self : ContainsKey(target, key)}
        child == [key \in both |-> Diff(t.val, self[key], target[key])]
        changed == {key \in both : ~IsUnchanged(child[key])}
        inserted == InsertedKeys(self, target)
        diffs == [key \in removed \cup changed \cup inserted |->
                     IF key \in inserted THEN Inserted(target[key])
                     ELSE IF key \in removed THEN Removed
                     ELSE KvDiffOf(child[key])]
        all_unchanged == removed = {} /\ changed = {} /\ inserted = {}
        all_replaced ==
            /\ removed = {}
            /\ \A key \in both :
                   ~IsUnchanged(child[key]) /\ IsReplaced(child[key])
            /\ inserted = {}
    IN  IF all_unchanged THEN Unchanged
        ELSE IF all_replaced THEN Replaced(target)
        ELSE Patched(diffs)

\* DiffOption that wraps every element diff that is not unchanged
DiffOption_WrapReplaced(t, self, target) ==
    IF ~self.some /\ ~target.some THEN Unchanged
    ELSE IF ~self.some \/ ~target.some THEN Replaced(target)
    ELSE LET x == Diff(t.of, self.v, target.v)
         IN  IF IsUnchanged(x) THEN Unchanged
             ELSE Patched(Some(x))

\* impl Diffable for Option<T>
DiffOption(t, self, target) ==
    IF ~self.some /\ ~target.some THEN Unchanged
    ELSE IF ~self.some \/ ~target.some THEN Replaced(target)
    ELSE LET x == Diff(t.of, self.v, target.v)
         IN  IF IsUnchanged(x) THEN Unchanged
             ELSE IF IsReplaced(x) THEN Replaced(target)
             ELSE Patched(Some(x))

\* the derived diff of a struct with named or positional fields
DiffStruct(t, self, target) ==
    LET ds == [i \in 1 .. Len(t.fields) |->
                  Diff(t.fields[i], self[i], target[i])]
    IN  FoldFields(ds, target, ds)

\* DiffEnum whose catch-all arm reports Unchanged
DiffEnum_CatchAllUnchanged(t, self, target) ==
    IF self.tag # target.tag THEN Unchanged
    ELSE IF t.variants[self.tag].style = "Unit" THEN Unchanged
    ELSE LET fts == t.variants[self.tag].fields
             ds == [i \in 1 .. Len(fts) |->
                       Diff(fts[i], self.fs[i], target.fs[i])]
         IN  FoldFields(ds, target, VariantD(self.tag, ds))

\* the derived diff of an enum
DiffEnum(t, self, target) ==
    IF self.tag # target.tag THEN Replaced(target)
    ELSE IF t.variants[self.tag].style = "Unit" THEN Unchanged
    ELSE LET fts == t.variants[self.tag].fields
             ds == [i \in 1 .. Len(fts) |->
                       Diff(fts[i], self.fs[i], target.fs[i])]
         IN  FoldFields(ds, target, VariantD(self.tag, ds))

Diff(t, self, target) ==
    CASE t.k = "prim" -> DiffPrimitive(t, self, target)
      [] t.k = "float" -> DiffPrimitive(t, self, target)
      [] t.k = "unit" -> Id
      [] t.k = "unitstruct" -> Id
      [] t.k = "vec" -> DiffVec(t, self, target)
      [] t.k = "map" -> DiffMap(t, self, target)
      [] t.k = "box" -> BoxD(Diff(t.of, self, target))
      [] t.k = "option" -> DiffOption(t, self, target)
      [] t.k = "tuple" ->
             TupleD([i \in 1 .. Len(t.fields) |->
                        Diff(t.fields[i], self[i], target[i])])
      [] t.k = "struct" -> DiffStruct(t, self, target)
      [] t.k = "enum" -> DiffEnum(t, self, target)

(***************************************************************************)
(* Apply::apply_to_base.  An application returns the new value of          *)
(* `source` and the new contents of `errs`.                                *)
(***************************************************************************)
\* the keys every map of the model draws from
KeyUniverse == 1 .. (IF MaxKey > MaxInnerKey THEN MaxKey ELSE MaxInnerKey)

\* the orders in which a HashMap may yield its keys
Orders ==
    {o \in [1 .. Cardinality(KeyUniverse) -> KeyUniverse] :
        \A i, j \in DOMAIN o : i # j => o[i] # o[j]}

Ascending == [i \in 1 .. Cardinality(KeyUniverse) |-> i]

\* self.into_iter() of a map patch: a BTreeMap yields its keys in
\* ascending order, a HashMap in an order of its own (o)
IterOrder(t, m, o) ==
    LET InMap(key) == key \in DOMAIN m
    IN  SelectSeq(IF t.btree THEN Ascending ELSE o, InMap)

Outcome(v, es) == [v |-> v, errs |-> es]

\* HashMap::remove / BTreeMap::remove
MapRemove(m, key) == [x \in DOMAIN m \ {key} |-> m[x]]

\* HashMap::insert / BTreeMap::insert: the value of a present key is
\* replaced
MapInsert(m, key, v) ==
    [x \in DOMAIN m \cup {key} |-> IF x = key THEN v ELSE m[x]]

RECURSIVE ApplyToBase(_, _, _, _, _), ApplyFields(_, _, _, _, _, _),
          ApplyMap(_, _, _, _, _, _)

\* ApplyEntry that lets a Removed entry for an absent key pass in silence
ApplyEntry_SilentRemove(t, key, e, src, es, o) ==
    CASE e.kv = "Removed" -> Outcome(MapRemove(src, key), es)
      [] e.kv = "Inserted" ->
             IF ContainsKey(src, key)
             THEN Outcome(MapInsert(src, key, e.v),
                          Append(es, "UnexpectedKey"))
             ELSE Outcome(MapInsert(src, key, e.v), es)
      [] e.kv = "Diff" ->
             IF ContainsKey(src, key)
             THEN LET r == ApplyToBase(t.val, e.d, src[key], es, o)
                  IN  Outcome([src EXCEPT ![key] = r.v], r.errs)
             ELSE Outcome(src, Append(es, "MissingKey"))

\* ApplyEntry that skips an entry once an error has been recorded
ApplyEntry_SkipAfterError(t, key, e, src, es, o) ==
    CASE es # <<>> -> Outcome(src, es)
      [] es = <<>> /\ e.kv = "Removed" ->
             IF ContainsKey(src, key) THEN Outcome(MapRemove(src, key), es)
             ELSE Outcome(src, Append(es, "MissingKey"))
      [] es = <<>> /\ e.kv = "Inserted" ->
             IF ContainsKey(src, key)
             THEN Outcome(MapInsert(src, key, e.v),
                          Append(es, "UnexpectedKey"))
             ELSE Outcome(MapInsert(src, key, e.v), es)
      [] es = <<>> /\ e.kv = "Diff" ->
             IF ContainsKey(src, key)
             THEN LET r == ApplyToBase(t.val, e.d, src[key], es, o)
                  IN  Outcome([src EXCEPT ![key] = r.v], r.errs)
             ELSE Outcome(src, Append(es, "MissingKey"))

\* one iteration of the loop of kv_map_impl! Apply::apply_to_base
ApplyEntry(t, key, e, src, es, o) ==
    CASE e.kv = "Removed" ->
             IF ContainsKey(src, key) THEN Outcome(MapRemove(src, key), es)
             ELSE Outcome(src, Append(es, "MissingKey"))
      [] e.kv = "Inserted" ->
             IF ContainsKey(src, key)
             THEN Outcome(MapInsert(src, key, e.v),
                          Append(es, "UnexpectedKey"))
             ELSE Outcome(MapInsert(src, key, e.v), es)
      [] e.kv = "Diff" ->
             IF ContainsKey(src, key)
             THEN LET r == ApplyToBase(t.val, e.d, src[key], es, o)
                  IN  Outcome([src EXCEPT ![key] = r.v], r.errs)
             ELSE Outcome(src, Append(es, "MissingKey"))

\* ApplyMap that returns at the first error
ApplyMap_EarlyExit(t, patch, keys, src, es, o) ==
    IF keys = <<>> \/ es # <<>> THEN Outcome(src, es)
    ELSE LET r == ApplyEntry(t, Head(keys), patch[Head(keys)], src, es, o)
         IN  ApplyMap(t, patch, Tail(keys), r.v, r.errs, o)

\* kv_map_impl! Apply::apply_to_base: the entries of keys, in order
ApplyMap(t, patch, keys, src, es, o) ==
    IF keys = <<>> THEN Outcome(src, es)
    ELSE LET r == ApplyEntry(t, Head(keys), patch[Head(keys)], src, es, o)
         IN  ApplyMap(t, patch, Tail(keys), r.v, r.errs, o)

\* ApplyFields that gives up at the first field that records an error
ApplyFields_StopOnError(ts, ds, srcs, es, o, i) ==
    IF i > Len(ts) \/ es # <<>> THEN Outcome(srcs, es)
    ELSE LET r == ApplyToBase(ts[i], ds[i], srcs[i], es, o)
         IN  ApplyFields(ts, ds, [srcs EXCEPT ![i] = r.v], r.errs, o, i + 1)

\* the field-by-field application of a tuple, a struct patch and the
\* fields of an enum variant, from field i on
ApplyFields(ts, ds, srcs, es, o, i) ==
    IF i > Len(ts) THEN Outcome(srcs, es)
    ELSE LET r == ApplyToBase(ts[i], ds[i], srcs[i], es, o)
         IN  ApplyFields(ts, ds, [srcs EXCEPT ![i] = r.v], r.errs, o, i + 1)

\* ApplyOption that takes a None patch on a None target for a match
ApplyOption_NoneOnNone(t, patch, src, es, o) ==
    IF patch.some /\ src.some
    THEN LET r == ApplyToBase(t.of, patch.v, src.v, es, o)
         IN  Outcome(Some(r.v), r.errs)
    ELSE IF ~patch.some /\ ~src.some THEN Outcome(src, es)
    ELSE Outcome(src, Append(es, "MismatchingEnum"))

\* impl Apply for Option<T>
ApplyOption(t, patch, src, es, o) ==
    IF patch.some /\ src.some
    THEN LET r == ApplyToBase(t.of, patch.v, src.v, es, o)
         IN  Outcome(Some(r.v), r.errs)
    ELSE Outcome(src, Append(es, "MismatchingEnum"))

\* ApplyEnum whose catch-all arm records nothing
ApplyEnum_Silent(t, patch, src, es, o) ==
    IF patch.tag = src.tag
    THEN LET r == ApplyFields(t.variants[src.tag].fields, patch.fs,
                              src.fs, es, o, 1)
         IN  Outcome([tag |-> src.tag, fs |-> r.v], r.errs)
    ELSE Outcome(src, es)

\* the derived apply_to_base of an enum's patch
ApplyEnum(t, patch, src, es, o) ==
    IF patch.tag = src.tag
    THEN LET r == ApplyFields(t.variants[src.tag].fields, patch.fs,
                              src.fs, es, o, 1)
         IN  Outcome([tag |-> src.tag, fs |-> r.v], r.errs)
    ELSE Outcome(src, Append(es, "MismatchingEnum"))

\* DeepDiff::Patched(patch) => patch.apply_to_base(source, errs)
ApplyPatch(t, patch, src, es, o) ==
    CASE t.k = "map" ->
             ApplyMap(t, patch, IterOrder(t, patch, o), src, es, o)
      [] t.k = "option" -> ApplyOption(t, patch, src, es, o)
      [] t.k = "struct" -> ApplyFields(t.fields, patch, src, es, o, 1)
      [] t.k = "enum" -> ApplyEnum(t, patch, src, es, o)

\* ApplyToBase that does not overwrite the target of a Replaced
ApplyToBase_KeepOnReplaced(t, x, src, es, o) ==
    CASE x.d = "Id" -> Outcome(src, es)
      [] x.d = "Unchanged" -> Outcome(src, es)
      [] x.d = "Replaced" -> Outcome(src, es)
      [] x.d = "Patched" -> ApplyPatch(t, x.p, src, es, o)
      [] x.d = "Box" -> ApplyToBase(t.of, x.of, src, es, o)
      [] x.d = "Tuple" -> ApplyFields(t.fields, x.fs, src, es, o, 1)

ApplyToBase(t, x, src, es, o) ==
    CASE x.d = "Id" -> Outcome(src, es)
      [] x.d = "Unchanged" -> Outcome(src, es)
      [] x.d = "Replaced" -> Outcome(x.r, es)
      [] x.d = "Patched" -> ApplyPatch(t, x.p, src, es, o)
      [] x.d = "Box" -> ApplyToBase(t.of, x.of, src, es, o)
      [] x.d = "Tuple" -> ApplyFields(t.fields, x.fs, src, es, o, 1)

(***************************************************************************)
(* The diffs a caller can write down for a type (T::Diff), as the          *)
(* bad_patch of smoke_test is written down.                                *)
(***************************************************************************)
RECURSIVE Diffs(_), DiffProduct(_, _)

DiffProduct(ts, n) ==
    IF n = 0 THEN {<<>>}
    ELSE {Append(p, x) : p \in DiffProduct(ts, n - 1), x \in Diffs(ts[n])}

KvDiffs(t) ==
    {Removed} \cup {Inserted(v) : v \in Values(t.val)}
              \cup {KvDiffOf(x) : x \in Diffs(t.val)}

Diffs(t) ==
    LET deep(patches) ==
            {Unchanged} \cup {Replaced(v) : v \in Values(t)}
                        \cup {Patched(p) : p \in patches}
    IN  CASE t.k = "prim" -> deep({})
          [] t.k = "float" -> deep({})
          [] t.k = "vec" -> deep({})
          [] t.k = "unit" -> {Id}
          [] t.k = "unitstruct" -> {Id}
          [] t.k = "map" ->
                 deep(UNION {[ks -> KvDiffs(t)] :
                                ks \in SUBSET (1 .. t.keys)})
          [] t.k = "box" -> {BoxD(x) : x \in Diffs(t.of)}
          [] t.k = "option" ->
                 deep({None} \cup {Some(x) : x \in Diffs(t.of)})
          [] t.k = "tuple" ->
                 {TupleD(p) : p \in DiffProduct(t.fields, Len(t.fields))}
          [] t.k = "struct" -> deep(DiffProduct(t.fields, Len(t.fields)))
          [] t.k = "enum" ->
                 deep(UNION {{VariantD(i, p) :
                                p \in DiffProduct(t.variants[i].fields,
                                                  Len(t.variants[i].fields))} :
                             i \in 1 .. Len(t.variants)})

(***************************************************************************)
(* The state machine.  A run is one of the two scenarios of the tests:     *)
(*   start -> diffed -> applied    p1.diff(&p2), then p1.apply(diff)       *)
(*   built -> patched              p5.apply(bad_patch), a patch written    *)
(*                                 down by the caller                      *)
(* base is the clone the tests keep of the value, source the value that    *)
(* is diffed and mutated (self), other the target of the diff.             *)
(***************************************************************************)
\* the types a hand-written patch is applied to
PatchTypeNames ==
    {"i32", "()", "HashMap<i32,i32>", "Option<SimpleStruct>", "Box<i32>",
     "(i32,f64)", "SimpleStruct", "Unit", "SimpleEnum", "Nested", "Holder",
     "Mixed", "HashMap<i32,Option<i32>>"}

\* no diff has been computed yet
NoDiff == [d |-> "None"]

Init ==
    /\ ty \in TypeNames
    /\ base \in Values(TypeOf(ty))
    /\ source = base
    /\ errs = <<>>
    /\ result = "none"
    /\ \/ /\ pc = "start"
          /\ other \in Values(TypeOf(ty))
          /\ diff = NoDiff
       \/ /\ pc = "built"
          /\ ty \in PatchTypeNames
          /\ other = base
          /\ diff \in Diffs(TypeOf(ty))

\* let diff = source.diff(&other)
DiffStep ==
    /\ pc = "start"
    /\ diff' = Diff(TypeOf(ty), source, other)
    /\ pc' = "diffed"
    /\ UNCHANGED <<ty, base, other, source, errs, result>>

\* Apply that returns Ok(()) whatever the traversal recorded
Apply_AlwaysOk ==
    /\ pc \in {"diffed", "built"}
    /\ \E o \in Orders :
          LET r == ApplyToBase(TypeOf(ty), diff, source, <<>>, o)
          IN  /\ source' = r.v
              /\ errs' = r.errs
              /\ result' = "Ok"
    /\ pc' = IF pc = "diffed" THEN "applied" ELSE "patched"
    /\ UNCHANGED <<ty, base, other, diff>>

\* Diffable::apply: source.apply(diff)
Apply ==
    /\ pc \in {"diffed", "built"}
    /\ \E o \in Orders :
          LET r == ApplyToBase(TypeOf(ty), diff, source, <<>>, o)
          IN  /\ source' = r.v
              /\ errs' = r.errs
              /\ result' = IF r.errs = <<>> THEN "Ok" ELSE "Err"
    /\ pc' = IF pc = "diffed" THEN "applied" ELSE "patched"
    /\ UNCHANGED <<ty, base, other, diff>>

Next == DiffStep \/ Apply

Spec == Init /\ [][Next]_vars

(***************************************************************************)
(* Properties.                                                             *)
(***************************************************************************)
T == TypeOf(ty)

IsMap == T.k = "map"

\* the number of occurrences of e in the list es
Count(es, e) == Cardinality({i \in DOMAIN es : es[i] = e})

\* C1: applying diff(a, b) to a copy of a yields a value equal to b, for
\* every type, maps whose target has keys the base lacks included.
C1_RoundTrip == pc = "applied" => source = other

\* C2: apply(diff(a, b)) called on a returns Ok(()): no MismatchingEnum,
\* MissingKey or UnexpectedKey is recorded.
C2_ApplyOwnDiffOk == pc = "applied" => result = "Ok" /\ errs = <<>>

\* C2 witness: a patch with a Removed and a Diff entry, computed from the
\* base, has been applied to it.
C2_Witness ==
    /\ pc = "applied"
    /\ ty = "BTreeMap<i32,Child2>"
    /\ diff.d = "Patched"
    /\ \E k1, k2 \in DOMAIN diff.p :
          diff.p[k1].kv = "Removed" /\ diff.p[k2].kv = "Diff"
    /\ result = "Ok"

RECURSIVE UnchangedSound(_, _, _, _)

\* every slot of the diff x of a against b that reports unchanged stands
\* for equal values
UnchangedSound(t, x, a, b) ==
    IF IsUnchanged(x) THEN a = b
    ELSE CASE x.d = "Box" -> UnchangedSound(t.of, x.of, a, b)
           [] x.d = "Tuple" ->
                  \A i \in 1 .. Len(x.fs) :
                      UnchangedSound(t.fields[i], x.fs[i], a[i], b[i])
           [] x.d = "Patched" /\ t.k = "map" ->
                  \A key \in DOMAIN x.p :
                      x.p[key].kv = "Diff" =>
                          UnchangedSound(t.val, x.p[key].d, a[key], b[key])
           [] x.d = "Patched" /\ t.k = "option" ->
                  x.p.some => UnchangedSound(t.of, x.p.v, a.v, b.v)
           [] x.d = "Patched" /\ t.k = "struct" ->
                  \A i \in 1 .. Len(x.p) :
                      UnchangedSound(t.fields[i], x.p[i], a[i], b[i])
           [] x.d = "Patched" /\ t.k = "enum" ->
                  \A i \in 1 .. Len(x.p.fs) :
                      UnchangedSound(t.variants[a.tag].fields[i], x.p.fs[i],
                                     a.fs[i], b.fs[i])
           [] OTHER -> TRUE

\* C4: whenever diff(a, b), or a child slot of a Patched result, is
\* Unchanged, the base and the target value of that slot are equal; a map
\* diff is Unchanged only if both maps have the same keys and values.
C4_UnchangedSound ==
    pc = "diffed" => UnchangedSound(T, diff, source, other)

\* the types of the fields of the aggregate value v of type t
FieldTypes(t, v) ==
    IF t.k = "struct" THEN t.fields ELSE t.variants[v.tag].fields

FieldsOf(t, v) == IF t.k = "struct" THEN v ELSE v.fs

\* source and other are a struct, or an enum in the same variant, with at
\* least one field
SameAggregate ==
    /\ T.k \in {"struct", "enum"}
    /\ T.k = "enum" => source.tag = other.tag
    /\ Len(FieldTypes(T, source)) > 0

\* C5 as stated: if every field of an aggregate differs between a and b,
\* diff(a, b) is Replaced(b), whatever the types of the fields.
C5_CollapseWhenAllDiffer ==
    (/\ pc = "diffed"
     /\ SameAggregate
     /\ \A i \in 1 .. Len(FieldTypes(T, source)) :
            ~PEq(FieldTypes(T, source)[i], FieldsOf(T, source)[i],
                 FieldsOf(T, other)[i]))
    => diff = Replaced(other)

\* C5 as amended: if the diff of every field of an aggregate is Replaced,
\* diff(a, b) is Replaced(b); that is the case when every field is a
\* primitive or a Vec and differs.  (A field that is an aggregate or a map
\* and differs in part has a Patched diff, and the result is Patched.)
C5_CollapseWhenAllReplaced ==
    (pc = "diffed" /\ SameAggregate) =>
        LET fts == FieldTypes(T, source)
            a == FieldsOf(T, source)
            b == FieldsOf(T, other)
        IN  /\ (\A i \in 1 .. Len(fts) : IsReplaced(Diff(fts[i], a[i], b[i])))
                => diff = Replaced(other)
            /\ (\A i \in 1 .. Len(fts) :
                    fts[i].k \in {"prim", "float", "vec"}
                    /\ ~PEq(fts[i], a[i], b[i]))
                => diff = Replaced(other)

\* C5 witness: a struct with an aggregate and a leaf field, both of them
\* replaced, has been diffed.
C5_Witness ==
    /\ pc = "diffed"
    /\ ty = "Nested"
    /\ IsReplaced(Diff(Child1, source[1], other[1]))
    /\ diff = Replaced(other)

\* C6: the map diff records Inserted(target value) for every key of the
\* target that the base lacks, so the result is not Unchanged.
C6_InsertedRecorded ==
    (pc = "diffed" /\ IsMap) =>
        \A key \in DOMAIN other \ DOMAIN source :
            /\ diff # Unchanged
            /\ diff.d = "Patched" =>
                   /\ key \in DOMAIN diff.p
                   /\ diff.p[key] = Inserted(other[key])

\* the diff of the values of a key of both maps
ChildDiff(key) == Diff(T.val, source[key], other[key])

\* the entries the spec has the map diff record
SpecEntries ==
    LET removed == DOMAIN source \ DOMAIN other
        inserted == DOMAIN other \ DOMAIN source
        changed == {key \in DOMAIN source \cap DOMAIN other :
                       ~IsUnchanged(ChildDiff(key))}
    IN  [key \in removed \cup inserted \cup changed |->
            IF key \in removed THEN Removed
            ELSE IF key \in inserted THEN Inserted(other[key])
            ELSE KvDiffOf(ChildDiff(key))]

\* C7 as stated: the map diff is Unchanged if no entry was recorded,
\* Replaced(target) if every recorded entry is a Removed, an Inserted or a
\* Diff of a Replaced child, and Patched(entries) otherwise.  It is stated
\* for the pairs of maps in which every key of the target is a key of the
\* base, where no Inserted entry is due.
C7_MapCollapse ==
    (pc = "diffed" /\ IsMap /\ DOMAIN other \subseteq DOMAIN source) =>
        diff = IF DOMAIN SpecEntries = {} THEN Unchanged
               ELSE IF \A key \in DOMAIN SpecEntries :
                          SpecEntries[key].kv = "Diff" =>
                              IsReplaced(SpecEntries[key].d)
                    THEN Replaced(other)
               ELSE Patched(SpecEntries)

\* the entries the map diff records for the keys of the base
BaseEntries ==
    LET removed == DOMAIN source \ DOMAIN other
        changed == {key \in DOMAIN source \cap DOMAIN other :
                       ~IsUnchanged(ChildDiff(key))}
    IN  [key \in removed \cup changed |->
            IF key \in removed THEN Removed ELSE KvDiffOf(ChildDiff(key))]

\* C7 as amended: the map diff is Unchanged if no entry was recorded; it
\* is Replaced(target) if an entry was recorded and every key of the base
\* is a key of the target whose child diff is Replaced (a Removed entry
\* and a key with an unchanged value both prevent the collapse); it is
\* Patched(entries) otherwise.
C7_MapCollapseBaseKeys ==
    (pc = "diffed" /\ IsMap) =>
        diff = IF DOMAIN BaseEntries = {} THEN Unchanged
               ELSE IF \A key \in DOMAIN source :
                          /\ key \in DOMAIN other
                          /\ IsReplaced(ChildDiff(key))
                    THEN Replaced(other)
               ELSE Patched(BaseEntries)

\* C7 witness: a map diff of two keys, both replaced, has collapsed.
C7_Witness ==
    /\ pc = "diffed"
    /\ ty = "HashMap<i32,i32>"
    /\ Cardinality(DOMAIN source) = 2
    /\ diff = Replaced(other)

\* C8: two maps with the same keys that differ in the value of exactly one
\* key, next to at least one unchanged key, diff to Patched with the
\* changed key as the only entry; and no patch map has an entry whose
\* child diff is Unchanged.
C8_SparsePatch ==
    (pc = "diffed" /\ IsMap) =>
        /\ \A key \in DOMAIN source :
               (/\ DOMAIN source = DOMAIN other
                /\ Cardinality(DOMAIN source) > 1
                /\ ~PEq(T.val, source[key], other[key])
                /\ \A k2 \in DOMAIN source \ {key} :
                       PEq(T.val, source[k2], other[k2]))
               => diff.d = "Patched" /\ DOMAIN diff.p = {key}
        /\ diff.d = "Patched" =>
               \A key \in DOMAIN diff.p :
                   diff.p[key].kv = "Diff" => ~IsUnchanged(diff.p[key].d)

RECURSIVE Inconsistent(_, _, _, _), InconsistentFields(_, _, _, _, _),
          InconsistentKeys(_, _, _, _, _)

\* the number of places of the diff x that are inconsistent with the
\* value src in the way the error e reports
Inconsistent(t, x, src, e) ==
    CASE x.d = "Box" -> Inconsistent(t.of, x.of, src, e)
      [] x.d = "Tuple" -> InconsistentFields(t.fields, x.fs, src, e, 1)
      [] x.d = "Patched" /\ t.k = "map" ->
             InconsistentKeys(t, x.p, src, e, DOMAIN x.p)
      [] x.d = "Patched" /\ t.k = "option" ->
             IF x.p.some /\ src.some
             THEN Inconsistent(t.of, x.p.v, src.v, e)
             ELSE IF e = "MismatchingEnum" THEN 1 ELSE 0
      [] x.d = "Patched" /\ t.k = "struct" ->
             InconsistentFields(t.fields, x.p, src, e, 1)
      [] x.d = "Patched" /\ t.k = "enum" ->
             IF x.p.tag = src.tag
             THEN InconsistentFields(t.variants[src.tag].fields, x.p.fs,
                                     src.fs, e, 1)
             ELSE IF e = "MismatchingEnum" THEN 1 ELSE 0
      [] OTHER -> 0

InconsistentFields(ts, ds, srcs, e, i) ==
    IF i > Len(ts) THEN 0
    ELSE Inconsistent(ts[i], ds[i], srcs[i], e)
         + InconsistentFields(ts, ds, srcs, e, i + 1)

InconsistentKeys(t, patch, src, e, keys) ==
    IF keys = {} THEN 0
    ELSE LET key == CHOOSE x \in keys : TRUE
             here ==
                 CASE patch[key].kv = "Removed" ->
                          IF key \notin DOMAIN src /\ e = "MissingKey"
                          THEN 1 ELSE 0
                   [] patch[key].kv = "Inserted" ->
                          IF key \in DOMAIN src /\ e = "UnexpectedKey"
                          THEN 1 ELSE 0
                   [] patch[key].kv = "Diff" ->
                          IF key \in DOMAIN src
                          THEN Inconsistent(t.val, patch[key].d, src[key], e)
                          ELSE IF e = "MissingKey" THEN 1 ELSE 0
         IN  here + InconsistentKeys(t, patch, src, e, keys \ {key})

ApplyErrors == {"MismatchingEnum", "MissingKey", "UnexpectedKey"}

\* C9: apply does not stop at the first error: it records one error for
\* every entry or subtree of the patch that is inconsistent with the
\* target, and the Err it returns holds all of them.
C9_ErrorAccumulation ==
    pc \in {"applied", "patched"} =>
        /\ \A e \in ApplyErrors :
               Count(errs, e) = Inconsistent(T, diff, base, e)
        /\ \A i \in DOMAIN errs : errs[i] \in ApplyErrors
        /\ result = "Err" <=> errs # <<>>

\* C9 witness: a patch with a Removed entry for an absent key and an
\* Inserted entry for a present key has been applied.
C9_Witness ==
    /\ pc = "patched"
    /\ ty = "HashMap<i32,i32>"
    /\ diff.d = "Patched"
    /\ \E k1, k2 \in DOMAIN diff.p :
          /\ diff.p[k1].kv = "Removed" /\ k1 \notin DOMAIN base
          /\ diff.p[k2].kv = "Inserted" /\ k2 \in DOMAIN base
    /\ result = "Err"
    /\ Count(errs, "MissingKey") = 1
    /\ Count(errs, "UnexpectedKey") = 1
    /\ Len(errs) = 2

\* C10: an Inserted entry inserts a copy of its value and records no error
\* if the key is absent; if the key is present it records UnexpectedKey
\* and leaves the key's value as it was.
C10_InsertedNoOverwrite ==
    (pc = "patched" /\ IsMap /\ diff.d = "Patched") =>
        \A key \in DOMAIN diff.p :
            diff.p[key].kv = "Inserted" =>
                IF key \in DOMAIN base
                THEN /\ Count(errs, "UnexpectedKey") > 0
                     /\ source[key] = base[key]
                ELSE source[key] = diff.p[key].v

\* the entries of the applied map patch that are Removed or Diff entries
AbsentTargets ==
    {key \in DOMAIN diff.p :
        diff.p[key].kv \in {"Removed", "Diff"} /\ key \notin DOMAIN base}

\* C11: a Removed or Diff(child) entry whose key is not in the target map
\* records exactly one MissingKey and leaves the map as it is (no key is
\* inserted for a Diff entry); if the key is present, Removed deletes it
\* and Diff applies the child diff to the value of that key only.
C11_RemovedAndDiffEntries ==
    (pc = "patched" /\ IsMap /\ diff.d = "Patched") =>
        /\ \A key \in DOMAIN diff.p :
               CASE diff.p[key].kv = "Removed" -> key \notin DOMAIN source
                 [] diff.p[key].kv = "Diff" ->
                        IF key \in DOMAIN base
                        THEN /\ key \in DOMAIN source
                             /\ source[key] =
                                    ApplyToBase(T.val, diff.p[key].d,
                                                base[key], <<>>, Ascending).v
                        ELSE key \notin DOMAIN source
                 [] OTHER -> TRUE
        /\ \A key \in DOMAIN base \ DOMAIN diff.p :
               key \in DOMAIN source /\ source[key] = base[key]
        /\ Count(errs, "MissingKey") = Cardinality(AbsentTargets)

\* C11 witness: a patch with a Diff entry for an absent key and a Removed
\* entry for a present key has been applied.
C11_Witness ==
    /\ pc = "patched"
    /\ ty = "HashMap<i32,i32>"
    /\ diff.d = "Patched"
    /\ \E k1, k2 \in DOMAIN diff.p :
          /\ diff.p[k1].kv = "Diff" /\ k1 \notin DOMAIN base
          /\ diff.p[k2].kv = "Removed" /\ k2 \in DOMAIN base
    /\ errs = <<"MissingKey">>
    /\ source = <<>>

\* C12: a patch built for one variant of an enum, applied to a target
\* that holds another variant, records exactly one MismatchingEnum and
\* leaves the target as it is.
C12_VariantMismatch ==
    (/\ pc = "patched"
     /\ T.k = "enum"
     /\ diff.d = "Patched"
     /\ diff.p.tag # base.tag)
    => errs = <<"MismatchingEnum">> /\ source = base /\ result = "Err"

\* C12 witness: a patch for Third { x, y } has been applied to a Second.
C12_Witness ==
    /\ pc = "patched"
    /\ ty = "SimpleEnum"
    /\ diff.d = "Patched"
    /\ diff.p.tag = 3
    /\ diff.p.fs[1].d = "Replaced"
    /\ base.tag = 2
    /\ errs = <<"MismatchingEnum">>

\* the diffs of the fields of source against those of other
FieldDiffs ==
    [i \in 1 .. Len(FieldTypes(T, source)) |->
        Diff(FieldTypes(T, source)[i], FieldsOf(T, source)[i],
             FieldsOf(T, other)[i])]

\* C13: the diff of two enum values in different variants is
\* Replaced(target), never Patched; in the same variant it is the fold of
\* the diffs of that variant's fields, and a Patched result carries a
\* patch of that variant.
C13_EnumDiff ==
    (pc = "diffed" /\ T.k = "enum") =>
        IF source.tag # other.tag THEN diff = Replaced(other)
        ELSE /\ diff =
                    IF \A i \in DOMAIN FieldDiffs : IsUnchanged(FieldDiffs[i])
                    THEN Unchanged
                    ELSE IF \A i \in DOMAIN FieldDiffs :
                               IsReplaced(FieldDiffs[i])
                         THEN Replaced(other)
                    ELSE Patched(VariantD(source.tag, FieldDiffs))
             /\ diff.d = "Patched" => diff.p.tag = source.tag

\* C13 witness: a First has been diffed against a Third.
C13_Witness ==
    /\ pc = "diffed"
    /\ ty = "SimpleEnum"
    /\ source.tag = 1
    /\ other.tag = 3
    /\ diff = Replaced(other)

\* the number of inconsistencies between the applied diff and its target
TotalInconsistent ==
    Inconsistent(T, diff, base, "MismatchingEnum")
    + Inconsistent(T, diff, base, "MissingKey")
    + Inconsistent(T, diff, base, "UnexpectedKey")

\* C14: Diffable::apply returns Ok(()) if and only if the traversal
\* recorded no error; otherwise it returns Err with the list of every
\* error recorded during the call, and that list is never empty.
C14_ApplyResult ==
    pc \in {"applied", "patched"} =>
        /\ result \in {"Ok", "Err"}
        /\ result = "Ok" <=> TotalInconsistent = 0
        /\ result = "Ok" <=> errs = <<>>
        /\ result = "Err" => Len(errs) = TotalInconsistent /\ Len(errs) > 0

\* C14 witness: an apply has returned Err with two errors.
C14_Witness ==
    /\ pc = "patched"
    /\ result = "Err"
    /\ Len(errs) = 2
    /\ TotalInconsistent = 2

\* the errors of the fields from the i-th on, each field's patch applied
\* on its own to the field's value before the call
RECURSIVE FieldErrs(_, _, _, _, _)

FieldErrs(ts, ds, srcs, o, i) ==
    IF i > Len(ts) THEN <<>>
    ELSE ApplyToBase(ts[i], ds[i], srcs[i], <<>>, o).errs
         \o FieldErrs(ts, ds, srcs, o, i + 1)

\* C15: there is no rollback: an error recorded in the subtree of one
\* field of a struct neither prevents nor undoes the mutation of its
\* siblings; after the call every field holds what its own patch makes
\* of it, and the errors of the fields come in declaration order.
C15_NoRollback ==
    (pc = "patched" /\ T.k = "struct" /\ diff.d = "Patched") =>
        \E o \in Orders :
            /\ \A i \in 1 .. Len(T.fields) :
                   LET r == ApplyToBase(T.fields[i], diff.p[i], base[i],
                                        <<>>, o)
                   IN  /\ source[i] = r.v
                       /\ r.errs = <<>> /\ diff.p[i].d = "Replaced"
                              => source[i] = diff.p[i].r
            /\ errs = FieldErrs(T.fields, diff.p, base, o, 1)

\* C15 witness: the patch of the first field of a Mixed has failed (a
\* Some patch on a None) and the patch of its second field has inserted
\* a key all the same.
C15_Witness ==
    /\ pc = "patched"
    /\ ty = "Mixed"
    /\ diff.d = "Patched"
    /\ diff.p[1].d = "Patched" /\ diff.p[1].p.some /\ ~base[1].some
    /\ diff.p[2].d = "Patched"
    /\ \E key \in DOMAIN diff.p[2].p : diff.p[2].p[key].kv = "Inserted"
    /\ base[2] = <<>>
    /\ source[2] # <<>>
    /\ source[1] = base[1]
    /\ errs = <<"MismatchingEnum">>

\* source and other are a struct, or an enum in the same variant
SameVariant ==
    /\ T.k \in {"struct", "enum"}
    /\ T.k = "enum" => source.tag = other.tag

\* C16: the diff of a struct, or of an enum in the same variant, is
\* Unchanged iff every child diff is_unchanged; otherwise Replaced(target)
\* iff every child diff is_replaced; otherwise Patched with one slot per
\* child.  So a Patched aggregate has a child that is not Unchanged and a
\* child that is not Replaced.  The diff of a tuple is unchanged, and is
\* replaced, iff all of its children are.
C16_CompositeFold ==
    /\ (pc = "diffed" /\ SameVariant) =>
           LET n == Len(FieldTypes(T, source))
               allU == \A i \in 1 .. n : IsUnchanged(FieldDiffs[i])
               allR == \A i \in 1 .. n : IsReplaced(FieldDiffs[i])
               slots == IF T.k = "struct" THEN diff.p ELSE diff.p.fs
           IN  /\ diff = Unchanged <=> allU
               /\ ~allU => (diff = Replaced(other) <=> allR)
               /\ diff.d \in {"Unchanged", "Replaced", "Patched"}
               /\ diff.d = "Patched" =>
                      /\ slots = FieldDiffs
                      /\ Len(slots) = n
                      /\ \E i \in 1 .. n : ~IsUnchanged(slots[i])
                      /\ \E i \in 1 .. n : ~IsReplaced(slots[i])
    /\ (pc = "diffed" /\ T.k = "tuple") =>
           LET ds == [i \in 1 .. Len(T.fields) |->
                         Diff(T.fields[i], source[i], other[i])]
           IN  /\ IsUnchanged(diff) <=>
                      \A i \in 1 .. Len(ds) : IsUnchanged(ds[i])
               /\ IsReplaced(diff) <=>
                      \A i \in 1 .. Len(ds) : IsReplaced(ds[i])

\* C16 witness: a struct whose first field is replaced and whose second
\* field is unchanged has been diffed, and the diff is Patched.
C16_Witness ==
    /\ pc = "diffed"
    /\ ty = "SimpleStruct"
    /\ diff.d = "Patched"
    /\ IsReplaced(diff.p[1])
    /\ IsUnchanged(diff.p[2])

\* C17: the diff of two Options is Unchanged for (None, None),
\* Replaced(target) for (None, Some) and (Some, None), and for
\* (Some(l), Some(r)) it is Unchanged when the diff of l and r is
\* unchanged, Replaced(target) when it is replaced, and
\* Patched(Some(that diff)) otherwise.
C17_OptionDiff ==
    (pc = "diffed" /\ T.k = "option") =>
        CASE ~source.some /\ ~other.some -> diff = Unchanged
          [] ~source.some /\ other.some -> diff = Replaced(other)
          [] source.some /\ ~other.some -> diff = Replaced(other)
          [] source.some /\ other.some ->
                 LET x == Diff(T.of, source.v, other.v)
                 IN  CASE IsUnchanged(x) -> diff = Unchanged
                       [] ~IsUnchanged(x) /\ IsReplaced(x) ->
                              diff = Replaced(other)
                       [] OTHER -> diff = Patched(Some(x))

\* C17 witness: two Some(SimpleStruct) that differ in both fields have
\* been diffed, and the diff is Replaced(target).
C17_Witness ==
    /\ pc = "diffed"
    /\ ty = "Option<SimpleStruct>"
    /\ source.some /\ other.some
    /\ source.v[1] # other.v[1]
    /\ source.v[2] # other.v[2]
    /\ diff = Replaced(other)

\* C18: applying Unchanged leaves the target as it is and records no
\* error; applying Replaced(r) to any target, the base of the diff or
\* not, makes the target equal to r and records no error, and r itself
\* is not modified.
C18_UnchangedAndReplaced ==
    [][/\ (pc \in {"diffed", "built"} /\ diff.d = "Unchanged") =>
              source' = source /\ errs' = <<>> /\ result' = "Ok"
       /\ (pc \in {"diffed", "built"} /\ diff.d = "Replaced") =>
              /\ source' = diff.r
              /\ errs' = <<>>
              /\ result' = "Ok"
              /\ diff' = diff
              /\ diff'.r = diff.r]_vars

\* C18 witness: a Replaced(r) written by the caller has been applied to
\* a target other than r.
C18_Witness ==
    /\ pc = "patched"
    /\ diff.d = "Replaced"
    /\ base # diff.r
    /\ source = diff.r
    /\ errs = <<>>

\* C19: the apply of a map patch does not depend on the order in which
\* the entries of the patch are visited: every order gives the same final
\* map and the same multiset of errors, and the keys of the target that
\* are not in the patch keep their values.
C19_OrderIndependent ==
    (pc = "patched" /\ IsMap /\ diff.d = "Patched") =>
        /\ \A o \in Orders :
               LET r == ApplyPatch(T, diff.p, base, <<>>, o)
               IN  /\ r.v = source
                   /\ Len(r.errs) = Len(errs)
                   /\ \A e \in ApplyErrors : Count(r.errs, e) = Count(errs, e)
        /\ \A key \in DOMAIN base \ DOMAIN diff.p :
               key \in DOMAIN source /\ source[key] = base[key]

\* C19 witness: a patch of two entries that fail with different errors,
\* which either order of the two entries can visit first, has been applied.
C19_Witness ==
    /\ pc = "patched"
    /\ ty = "HashMap<i32,i32>"
    /\ diff.d = "Patched"
    /\ Cardinality(DOMAIN diff.p) = 2
    /\ Len(errs) = 2
    /\ errs[1] # errs[2]

\* C20: the apply of an Option patch recurses into the child only when
\* the patch and the target are both Some; for a None patch or a None
\* target, a None patch on a None target included, it records exactly one
\* MismatchingEnum and leaves the target as it is.
C20_OptionApply ==
    (pc = "patched" /\ T.k = "option" /\ diff.d = "Patched") =>
        IF diff.p.some /\ base.some
        THEN LET r == ApplyToBase(T.of, diff.p.v, base.v, <<>>, Ascending)
             IN  source = Some(r.v) /\ errs = r.errs
        ELSE errs = <<"MismatchingEnum">> /\ source = base /\ result = "Err"

\* C20 witness: a None patch has been applied to a None.
C20_Witness ==
    /\ pc = "patched"
    /\ ty = "Option<SimpleStruct>"
    /\ diff.d = "Patched"
    /\ ~diff.p.some
    /\ ~base.some
    /\ errs = <<"MismatchingEnum">>

====
